---- MODULE Spec2Model ----
(***************************************************************************)
(* Session tickets of tls-tris (ticket.go): the two session-state codecs   *)
(* (sessionState, sessionState13) and the ticket sealing / opening of      *)
(* Conn.encryptTicket / Conn.decryptTicket.                                *)
(*                                                                         *)
(* Byte slices are sequences of 0..255.  TLC's integers are 32 bits wide,  *)
(* so a uint32 is held as two 16-bit limbs and a uint64 as four, most      *)
(* significant limb first.                                                 *)
(***************************************************************************)
EXTENDS Integers, Sequences, FiniteSets, TLC

VARIABLES
    st,        \* codec: the session state handed to marshal (NoState: none)
    data,      \* codec: the byte slice handed to unmarshal
    op,        \* codec: how data was produced
    res,       \* codec: what unmarshal returned
    keys,      \* ticket: c.config.ticketKeys(), index 1 is the current key
    disabled,  \* ticket: c.config.SessionTicketsDisabled
    hmacTab,   \* ticket: the (key, message) pairs HMAC-SHA256 was applied to
    aesTab,    \* ticket: the AES-CTR keystream of each (key, iv) used so far
    sealed,    \* ticket: what encryptTicket was given and what it returned
    buf,       \* ticket: the caller's buffer handed to decryptTicket
    tamper,    \* ticket: what the network did to the ticket
    out        \* ticket: what decryptTicket returned, and how often it ran

codecVars == <<st, data, op, res>>
ticketVars == <<keys, disabled, hmacTab, aesTab, sealed, buf, tamper, out>>
vars == <<st, data, op, res, keys, disabled, hmacTab, aesTab, sealed, buf, tamper, out>>

----------------------------------------------------------------------------
(* Bounds of the model. *)

MaxSecretLen == 2
MaxCerts == 2
MaxCertLen == 1
MaxStrLen == 1
MaxRawTail == 8
MaxKeys == 2
MaxPayload == 2
MaxTamperPayload == 1
OverBy == 1

----------------------------------------------------------------------------
(* Bytes and slices. *)

SeqsUpTo(S, n) == UNION {[1..k -> S] : k \in 0..n}

Rep(n, b) == [i \in 1..n |-> b]

\* d[n:] and d[:n] of a slice d with 0 <= n <= len(d); the callers check the
\* range first, as the Go runtime does.
Drop(d, n) == SubSeq(d, n + 1, Len(d))

Take(d, n) == SubSeq(d, 1, n)

\* byte(n >> 8), byte(n) of an integer n >= 0: the conversion keeps the low 8 bits.
PutU16Swapped(n) == <<n % 256, (n \div 256) % 256>>

PutU16(n) == <<(n \div 256) % 256, n % 256>>

\* byte(n >> 24) .. byte(n) of an int n >= 0 (a certificate's length).
PutLen32(n) == <<(n \div 16777216) % 256, (n \div 65536) % 256, (n \div 256) % 256, n % 256>>

\* A uint32 <<hi, lo>> and a uint64 <<w3, w2, w1, w0>>, big-endian.
PutU32(x) == PutU16(x[1]) \o PutU16(x[2])

PutU64(x) == PutU16(x[1]) \o PutU16(x[2]) \o PutU16(x[3]) \o PutU16(x[4])

\* uint16(d[i])<<8 | uint16(d[i+1]), i counted from 0 as in the source.
U16(d, i) == d[i + 1] * 256 + d[i + 2]

U32(d, i) == <<U16(d, i), U16(d, i + 2)>>

U64(d, i) == <<U16(d, i), U16(d, i + 2), U16(d, i + 4), U16(d, i + 6)>>

\* int(d[0])<<24 | int(d[1])<<16 | int(d[2])<<8 | int(d[3]) where int has w bits.
\* With w = 32 a first byte >= 128 sets the sign bit.  With w = 64 the value is
\* at least 2^31, more than any slice of the model holds: it is held as 2^31 - 1.
CertLenInt(d, w) ==
    IF d[1] < 128 THEN d[1] * 16777216 + d[2] * 65536 + d[3] * 256 + d[4]
    ELSE IF w = 32 THEN (d[1] - 256) * 16777216 + d[2] * 65536 + d[3] * 256 + d[4]
    ELSE 2147483647

IntBits == {32, 64}

----------------------------------------------------------------------------
(* sessionState and sessionState13. *)

NoState == [shape |-> "none"]

equal12(s, s1) ==
    /\ s1.shape = "v12"
    /\ ~ (s.vers # s1.vers \/ s.cipherSuite # s1.cipherSuite
            \/ s.masterSecret # s1.masterSecret)
    /\ Len(s.certificates) = Len(s1.certificates)
    /\ \A i \in 1..Len(s.certificates) : s.certificates[i] = s1.certificates[i]

equal13(s, s1) ==
    /\ s1.shape = "v13"
    /\ s.vers = s1.vers
    /\ s.suite = s1.suite
    /\ s.ageAdd = s1.ageAdd
    /\ s.createdAt = s1.createdAt
    /\ s.maxEarlyDataLen = s1.maxEarlyDataLen
    /\ s.resumptionSecret = s1.resumptionSecret
    /\ s.alpnProtocol = s1.alpnProtocol
    /\ s.SNI = s1.SNI

equal(s, s1) == IF s.shape = "v12" THEN equal12(s, s1) ELSE equal13(s, s1)

RECURSIVE MarshalCerts(_)
MarshalCerts(certs) ==
    IF certs = <<>> THEN <<>>
    ELSE PutLen32(Len(Head(certs))) \o Head(certs) \o MarshalCerts(Tail(certs))

marshal12(s) ==
    PutU16(s.vers) \o PutU16(s.cipherSuite)
        \o PutU16(Len(s.masterSecret)) \o s.masterSecret
        \o PutU16(Len(s.certificates)) \o MarshalCerts(s.certificates)

marshal13(s) ==
    PutU16(s.vers) \o PutU16(s.suite) \o PutU32(s.ageAdd) \o PutU64(s.createdAt)
        \o PutU32(s.maxEarlyDataLen)
        \o PutU16(Len(s.resumptionSecret)) \o s.resumptionSecret
        \o PutU16(Len(s.alpnProtocol)) \o s.alpnProtocol
        \o PutU16(Len(s.SNI)) \o s.SNI

marshal(s) == IF s.shape = "v12" THEN marshal12(s) ELSE marshal13(s)

----------------------------------------------------------------------------
(* unmarshal.  A run of unmarshal carries a log g: every length prefix it  *)
(* read (the declared length and the bytes that remained behind the        *)
(* prefix) and every slice or make whose size came from the input (the     *)
(* size and the bytes that remained at that point).  An index or slice     *)
(* expression out of range ends the run in a panic, as the Go runtime's    *)
(* bounds check does.                                                      *)

G0 == [lens |-> <<>>, allocs |-> <<>>]

NoteLen(g, f, n, rem) ==
    [g EXCEPT !.lens = Append(@, [field |-> f, declared |-> n, remaining |-> rem])]

NoteAlloc(g, f, n, rem) ==
    [g EXCEPT !.allocs = Append(@, [field |-> f, size |-> n, remaining |-> rem])]

NoRes == [done |-> FALSE]

Returned(b, s, g, w) ==
    [done |-> TRUE, ok |-> b, panic |-> FALSE, s |-> IF b THEN s ELSE NoState,
     lens |-> g.lens, allocs |-> g.allocs, intBits |-> w]

Panicked(g, w) ==
    [done |-> TRUE, ok |-> FALSE, panic |-> TRUE, s |-> NoState,
     lens |-> g.lens, allocs |-> g.allocs, intBits |-> w]

\* The guards of sessionState.unmarshal.
Short12(d) == Len(d) < 8

SecretTooLong12(d, masterSecretLen) == Len(d) < masterSecretLen

CertTooLong12Off(d, certLen) == FALSE

CertTooLong12(d, certLen) == Len(d) < certLen

Consumed12Off(d) == TRUE

Consumed12(d) == Len(d) = 0

\* The loop over s.certificates: n certificates are still to be read from d.
RECURSIVE CertLoop12(_, _, _, _, _)
CertLoop12(d, n, certs, g, w) ==
    IF n = 0 THEN [ret |-> "end", d |-> d, certs |-> certs, g |-> g]
    ELSE IF Len(d) < 4 THEN [ret |-> "false", d |-> d, certs |-> certs, g |-> g]
    ELSE LET certLen == CertLenInt(d, w)
             d1 == Drop(d, 4)
             g1 == NoteLen(g, "certificate", certLen, Len(d1))
         IN  IF certLen < 0 THEN [ret |-> "false", d |-> d1, certs |-> certs, g |-> g1]
             ELSE IF CertTooLong12(d1, certLen)
                  THEN [ret |-> "false", d |-> d1, certs |-> certs, g |-> g1]
             ELSE IF certLen > Len(d1)
                  THEN [ret |-> "panic", d |-> d1, certs |-> certs, g |-> g1]
             ELSE CertLoop12(Drop(d1, certLen), n - 1, Append(certs, Take(d1, certLen)),
                             NoteAlloc(g1, "certificate", certLen, Len(d1)), w)

\* sessionState.unmarshal on a receiver s0, with an int of w bits.
unmarshal12(s0, d0, w) ==
    IF Short12(d0) THEN Returned(FALSE, s0, G0, w)
    ELSE IF Len(d0) < 6 THEN Panicked(G0, w)
    ELSE
    LET masterSecretLen == U16(d0, 4)
        d1 == Drop(d0, 6)
        g1 == NoteLen(G0, "masterSecret", masterSecretLen, Len(d1))
    IN  IF SecretTooLong12(d1, masterSecretLen) THEN Returned(FALSE, s0, g1, w)
        ELSE IF masterSecretLen > Len(d1) THEN Panicked(g1, w)
        ELSE
        LET d2 == Drop(d1, masterSecretLen)
            g2 == NoteAlloc(g1, "masterSecret", masterSecretLen, Len(d1))
        IN  IF Len(d2) < 2 THEN Returned(FALSE, s0, g2, w)
            ELSE
            LET numCerts == U16(d2, 0)
                d3 == Drop(d2, 2)
                g3 == NoteAlloc(g2, "certificates", numCerts, Len(d3))
                loop == CertLoop12(d3, numCerts, <<>>, g3, w)
                s == [shape |-> "v12", vers |-> U16(d0, 0), cipherSuite |-> U16(d0, 2),
                      masterSecret |-> Take(d1, masterSecretLen),
                      certificates |-> loop.certs, usedOldKey |-> s0.usedOldKey]
            IN  IF loop.ret = "panic" THEN Panicked(loop.g, w)
                ELSE IF loop.ret = "false" THEN Returned(FALSE, s0, loop.g, w)
                ELSE Returned(Consumed12(loop.d), s, loop.g, w)

\* The guards of sessionState13.unmarshal.
Short13(d) == Len(d) < 24

SecretTooLong13(d, l) == Len(d) < 22 + l + 2

AlpnTooLong13Off(z, l) == Len(z) < 2 + l

AlpnTooLong13(z, l) == Len(z) < 2 + l + 2

NameMismatch13(z, l) == Len(z) # 2 + l

\* sessionState13.unmarshal.
unmarshal13(d0, w) ==
    IF Short13(d0) THEN Returned(FALSE, NoState, G0, w)
    ELSE IF Len(d0) < 22 THEN Panicked(G0, w)
    ELSE
    LET l1 == U16(d0, 20)
        g1 == NoteLen(G0, "resumptionSecret", l1, Len(d0) - 22)
    IN  IF SecretTooLong13(d0, l1) THEN Returned(FALSE, NoState, g1, w)
        ELSE IF 22 + l1 > Len(d0) THEN Panicked(g1, w)
        ELSE
        LET z1 == Drop(d0, 22 + l1)
            g2 == NoteAlloc(g1, "resumptionSecret", l1, Len(d0) - 22)
        IN  IF Len(z1) < 2 THEN Panicked(g2, w)
            ELSE
            LET l2 == U16(z1, 0)
                g3 == NoteLen(g2, "alpnProtocol", l2, Len(z1) - 2)
            IN  IF AlpnTooLong13(z1, l2) THEN Returned(FALSE, NoState, g3, w)
                ELSE IF 2 + l2 > Len(z1) THEN Panicked(g3, w)
                ELSE
                LET z2 == Drop(z1, 2 + l2)
                    g4 == NoteAlloc(g3, "alpnProtocol", l2, Len(z1) - 2)
                IN  IF Len(z2) < 2 THEN Panicked(g4, w)
                    ELSE
                    LET l3 == U16(z2, 0)
                        g5 == NoteLen(g4, "SNI", l3, Len(z2) - 2)
                    IN  IF NameMismatch13(z2, l3) THEN Returned(FALSE, NoState, g5, w)
                        ELSE IF 2 + l3 > Len(z2) THEN Panicked(g5, w)
                        ELSE Returned(TRUE,
                                 [shape |-> "v13", vers |-> U16(d0, 0), suite |-> U16(d0, 2),
                                  ageAdd |-> U32(d0, 4), createdAt |-> U64(d0, 8),
                                  maxEarlyDataLen |-> U32(d0, 16),
                                  resumptionSecret |-> SubSeq(d0, 23, 22 + l1),
                                  alpnProtocol |-> SubSeq(z1, 3, 2 + l2),
                                  SNI |-> SubSeq(z2, 3, 2 + l3)],
                                 NoteAlloc(g5, "SNI", l3, Len(z2) - 2), w)

----------------------------------------------------------------------------
(* The inputs of the codec. *)

SecretBytes == {0, 255}

CertBytes == {1}

StrBytes == {97}

RawBytes == {0, 1, 255}

\* <<vers, cipherSuite>>
Profiles12 == {<<769, 4865>>, <<0, 0>>, <<65535, 255>>}

\* <<vers, suite, ageAdd, createdAt, maxEarlyDataLen>>
Profiles13 ==
    {<<772, 4865, <<258, 772>>, <<258, 772, 1286, 1800>>, <<2571, 3085>>>>,
     <<0, 0, <<0, 0>>, <<0, 0, 0, 0>>, <<0, 0>>>>,
     <<65535, 65535, <<65535, 65535>>, <<65535, 65535, 65535, 65535>>, <<65535, 65535>>>>}

States12 ==
    {[shape |-> "v12", vers |-> p[1], cipherSuite |-> p[2], masterSecret |-> m,
      certificates |-> c, usedOldKey |-> u] :
        p \in Profiles12, m \in SeqsUpTo(SecretBytes, MaxSecretLen),
        c \in SeqsUpTo(SeqsUpTo(CertBytes, MaxCertLen), MaxCerts), u \in BOOLEAN}

States13 ==
    {[shape |-> "v13", vers |-> p[1], suite |-> p[2], ageAdd |-> p[3], createdAt |-> p[4],
      maxEarlyDataLen |-> p[5], resumptionSecret |-> r, alpnProtocol |-> a, SNI |-> n] :
        p \in Profiles13, r \in SeqsUpTo(SecretBytes, MaxSecretLen),
        a \in SeqsUpTo(StrBytes, MaxStrLen), n \in SeqsUpTo(StrBytes, MaxStrLen)}

\* Byte slices that came from no marshal: every length up to a fixed header, and
\* the fixed header of either shape followed by every tail over RawBytes.
RawInputs ==
    {Rep(k, 0) : k \in 0..19}
        \cup {Rep(4, 0) \o t : t \in SeqsUpTo(RawBytes, MaxRawTail)}
        \cup {Rep(20, 0) \o t : t \in SeqsUpTo(RawBytes, MaxRawTail)}

\* A new(sessionState): Go's zero value.
New12 ==
    [shape |-> "v12", vers |-> 0, cipherSuite |-> 0, masterSecret |-> <<>>,
     certificates |-> <<>>, usedOldKey |-> FALSE]

----------------------------------------------------------------------------
(* The codec's operations. *)

TicketIdle ==
    /\ keys = <<>>
    /\ disabled = FALSE
    /\ hmacTab = <<>>
    /\ aesTab = <<>>
    /\ sealed = [made |-> FALSE]
    /\ buf = <<>>
    /\ tamper = "none"
    /\ out = [calls |-> 0]

CodecIdle ==
    /\ st = NoState
    /\ data = <<>>
    /\ op = "init"
    /\ res = NoRes

Init == CodecIdle /\ TicketIdle

Marshal ==
    /\ op = "init"
    /\ \E s \in States12 \cup States13 :
        /\ st' = s
        /\ data' = marshal(s)
    /\ op' = "marshal"
    /\ UNCHANGED <<res, ticketVars>>

\* The encoding loses its last byte, or more.
Truncate ==
    /\ op = "marshal"
    /\ ~ res.done
    /\ \E n \in 0..(Len(data) - 1) : data' = Take(data, n)
    /\ op' = "truncate"
    /\ UNCHANGED <<st, res, ticketVars>>

\* The encoding gains a byte.
Extend ==
    /\ op = "marshal"
    /\ ~ res.done
    /\ \E b \in RawBytes : data' = Append(data, b)
    /\ op' = "extend"
    /\ UNCHANGED <<st, res, ticketVars>>

\* A ticket payload that is no encoding arrives.
Receive ==
    /\ op = "init"
    /\ \E r \in RawInputs : data' = r
    /\ op' = "receive"
    /\ UNCHANGED <<st, res, ticketVars>>

Unmarshal12 ==
    /\ op # "init"
    /\ ~ res.done
    /\ st.shape \in {"v12", "none"}
    /\ \E w \in IntBits : res' = unmarshal12(New12, data, w)
    /\ UNCHANGED <<st, data, op, ticketVars>>

Unmarshal13 ==
    /\ op # "init"
    /\ ~ res.done
    /\ st.shape \in {"v13", "none"}
    /\ \E w \in IntBits : res' = unmarshal13(data, w)
    /\ UNCHANGED <<st, data, op, ticketVars>>

Next == Marshal \/ Truncate \/ Extend \/ Receive \/ Unmarshal12 \/ Unmarshal13

Spec == Init /\ [][Next]_vars

----------------------------------------------------------------------------
(* Claims about the codec, checked under Spec. *)

C4_RejectsTruncation ==
    (op = "truncate" /\ res.done) => (~ res.ok /\ ~ res.panic)

C4_Witness ==
    /\ op = "truncate"
    /\ res.done
    /\ st.shape = "v13"
    /\ Len(st.SNI) = 1
    /\ Len(data) = Len(marshal(st)) - 1

\* C5: unmarshal of a valid encoding followed by one more byte returns false.
C5_RejectsExtension ==
    (op = "extend" /\ res.done) => (~ res.ok /\ ~ res.panic)

C5_Witness ==
    /\ op = "extend"
    /\ res.done
    /\ st.shape = "v12"
    /\ Len(st.certificates) = 1
    /\ data[Len(data)] = 255

\* C6: on every input unmarshal returns without an index or slice out of range,
\* and returns false when a length prefix declares more bytes than remain.
C6_BoundsSafe ==
    res.done =>
        /\ ~ res.panic
        /\ (\E i \in 1..Len(res.lens) : res.lens[i].declared > res.lens[i].remaining)
               => ~ res.ok

C6_Witness ==
    /\ op = "receive"
    /\ res.done
    /\ Len(res.lens) = 2
    /\ res.lens[2].field = "alpnProtocol"
    /\ res.lens[2].declared > res.lens[2].remaining

\* C8: every slice or allocation sized by a length or count field of the input
\* is made only when that size is at most the number of input bytes remaining.
C8_AllocChecked ==
    res.done =>
        \A i \in 1..Len(res.allocs) : res.allocs[i].size <= res.allocs[i].remaining

----------------------------------------------------------------------------
(* Tickets: keyName | iv | ciphertext | mac.                               *)
(*                                                                         *)
(* crypto/hmac and crypto/aes are libraries.  HMAC-SHA256 is an ideal MAC: *)
(* hmacTab lists the (key, message) pairs it was applied to, and the n-th  *)
(* pair has the n-th tag, so two different pairs never share a tag.  The   *)
(* AES-CTR keystream of a (key, iv) is drawn when it is first used, any    *)
(* byte of KsBytes at each place, and kept in aesTab: the same (key, iv)   *)
(* gives the same keystream again.                                         *)

ticketKeyNameLen == 16

aesBlockSize == 16

sha256Size == 32

RECURSIVE Xor(_, _)
Xor(a, b) ==
    IF a = 0 THEN b
    ELSE IF b = 0 THEN a
    ELSE (((a % 2) + (b % 2)) % 2) + 2 * Xor(a \div 2, b \div 2)

TagOf(n) == Rep(sha256Size, n)

HmacKnown(tab, q) == \E i \in 1..Len(tab) : tab[i] = q

HmacIndex(tab, q) ==
    IF HmacKnown(tab, q) THEN CHOOSE i \in 1..Len(tab) : tab[i] = q ELSE Len(tab) + 1

\* mac := hmac.New(sha256.New, hmacKey); mac.Write(msg); mac.Sum(nil)
HmacSum(tab, hmacKey, msg) == TagOf(HmacIndex(tab, <<hmacKey, msg>>))

HmacNoted(tab, hmacKey, msg) ==
    IF HmacKnown(tab, <<hmacKey, msg>>) THEN tab ELSE Append(tab, <<hmacKey, msg>>)

KsBytes == {0, 90}

KsKnown(tab, aesKey, iv, n) ==
    \E i \in 1..Len(tab) : tab[i].key = aesKey /\ tab[i].iv = iv /\ Len(tab[i].ks) >= n

\* The first n keystream bytes of (aesKey, iv); pick is the draw for a pair not
\* used before.
KeyStream(tab, aesKey, iv, n, pick) ==
    IF KsKnown(tab, aesKey, iv, n)
    THEN Take((CHOOSE e \in {tab[i] : i \in 1..Len(tab)} :
                   e.key = aesKey /\ e.iv = iv /\ Len(e.ks) >= n).ks, n)
    ELSE pick

KsNoted(tab, aesKey, iv, n, pick) ==
    IF KsKnown(tab, aesKey, iv, n) THEN tab
    ELSE Append(tab, [key |-> aesKey, iv |-> iv, ks |-> pick])

\* cipher.NewCTR(block, iv).XORKeyStream(dst, src)
XORKeyStream(ks, src) == [i \in 1..Len(src) |-> Xor(src[i], ks[i])]

\* aes.NewCipher fails on a key that is not 16, 24 or 32 bytes long.
NewCipherFails(aesKey) == Len(aesKey) \notin {16, 24, 32}

----------------------------------------------------------------------------
(* Conn.encryptTicket and Conn.decryptTicket. *)

\* The loop over the candidate keys: the index (from 0) of the first key whose
\* name is keyName, or -1.
KeyIndex(ks, keyName) ==
    IF \E i \in 1..Len(ks) : ks[i].keyName = keyName
    THEN (CHOOSE i \in 1..Len(ks) :
              /\ ks[i].keyName = keyName
              /\ \A j \in 1..(i - 1) : ks[j].keyName # keyName) - 1
    ELSE -1

\* The bytes the MAC is computed over.
MacInputCiphertextOnly(encrypted) ==
    SubSeq(encrypted, ticketKeyNameLen + aesBlockSize + 1, Len(encrypted) - sha256Size)

MacInput(encrypted) == Take(encrypted, Len(encrypted) - sha256Size)

\* subtle.ConstantTimeCompare(macBytes, expected) != 1
MacMismatch(macBytes, expected) == macBytes # expected

UsedOldKeyAlways(keyIndex) == keyIndex >= 0

UsedOldKey(keyIndex) == keyIndex > 0

\* The caller's buffer after XORKeyStream wrote the plaintext over the ciphertext.
InPlaceWithMac(encrypted, plaintext) ==
    Take(encrypted, ticketKeyNameLen + aesBlockSize) \o plaintext \o Rep(sha256Size, 0)

InPlace(encrypted, plaintext) ==
    Take(encrypted, ticketKeyNameLen + aesBlockSize) \o plaintext
        \o Drop(encrypted, Len(encrypted) - sha256Size)

\* What encryptTicket returns for payload serialized, a filled iv and the
\* keystream draw pick: the ticket, or nil and an error.
encryptTicket(serialized, iv, pick) ==
    LET key == keys[1]
        ks == KeyStream(aesTab, key.aesKey, iv, Len(serialized), pick)
        \* encrypted, with macBytes not yet written
        unsigned == key.keyName \o iv \o XORKeyStream(ks, serialized) \o Rep(sha256Size, 0)
        body == MacInput(unsigned)
    IN  IF NewCipherFails(key.aesKey)
        THEN [err |-> TRUE, encrypted |-> <<>>, hmacTab |-> hmacTab, aesTab |-> aesTab]
        ELSE [err |-> FALSE,
              encrypted |-> Take(unsigned, Len(unsigned) - sha256Size)
                                \o HmacSum(hmacTab, key.hmacKey, body),
              hmacTab |-> HmacNoted(hmacTab, key.hmacKey, body),
              aesTab |-> KsNoted(aesTab, key.aesKey, iv, Len(serialized), pick)]

RejectedLeaky(encrypted, tab, at) ==
    [nil |-> TRUE, serialized |-> <<>>, usedOldKey |-> at = "mac", buf |-> encrypted,
     hmacTab |-> tab, aesTab |-> aesTab, at |-> at]

Rejected(encrypted, tab, at) ==
    [nil |-> TRUE, serialized |-> <<>>, usedOldKey |-> FALSE, buf |-> encrypted,
     hmacTab |-> tab, aesTab |-> aesTab, at |-> at]

\* What decryptTicket returns on the buffer encrypted, the buffer afterwards, and
\* the return statement it left by.
decryptTicket(encrypted, pick) ==
    IF disabled \/ Len(encrypted) < ticketKeyNameLen + aesBlockSize + sha256Size
    THEN Rejected(encrypted, hmacTab, "short or disabled")
    ELSE
    LET keyName == Take(encrypted, ticketKeyNameLen)
        iv == SubSeq(encrypted, ticketKeyNameLen + 1, ticketKeyNameLen + aesBlockSize)
        macBytes == Drop(encrypted, Len(encrypted) - sha256Size)
        keyIndex == KeyIndex(keys, keyName)
    IN  IF keyIndex = -1 THEN Rejected(encrypted, hmacTab, "no key")
        ELSE
        LET key == keys[keyIndex + 1]
            expected == HmacSum(hmacTab, key.hmacKey, MacInput(encrypted))
            tab == HmacNoted(hmacTab, key.hmacKey, MacInput(encrypted))
        IN  IF MacMismatch(macBytes, expected) THEN Rejected(encrypted, tab, "mac")
            ELSE IF NewCipherFails(key.aesKey) THEN Rejected(encrypted, tab, "cipher")
            ELSE
            LET ciphertext == SubSeq(encrypted, ticketKeyNameLen + aesBlockSize + 1,
                                     Len(encrypted) - sha256Size)
                ks == KeyStream(aesTab, key.aesKey, iv, Len(ciphertext), pick)
                plaintext == XORKeyStream(ks, ciphertext)
            IN  [nil |-> FALSE, serialized |-> plaintext,
                 usedOldKey |-> UsedOldKey(keyIndex),
                 buf |-> InPlace(encrypted, plaintext), hmacTab |-> tab,
                 aesTab |-> KsNoted(aesTab, key.aesKey, iv, Len(ciphertext), pick),
                 at |-> "payload"]

----------------------------------------------------------------------------
(* The inputs of the ticket operations. *)

KA == [keyName |-> Rep(16, 1), aesKey |-> Rep(16, 11), hmacKey |-> Rep(16, 21)]

KB == [keyName |-> Rep(16, 2), aesKey |-> Rep(16, 12), hmacKey |-> Rep(16, 22)]

\* KA's name with one bit flipped, and KA's keys.
KC == [keyName |-> <<0>> \o Rep(15, 1), aesKey |-> Rep(16, 11), hmacKey |-> Rep(16, 21)]

\* KA's name again, with other keys.
KD == [keyName |-> Rep(16, 1), aesKey |-> Rep(16, 13), hmacKey |-> Rep(16, 23)]

KeyPool == {KA, KB, KD}

TamperKeyPool == {KA, KC}

KeyLists(pool) == SeqsUpTo(pool, MaxKeys) \ {<<>>}

PayloadBytes == {0, 7}

Payloads == SeqsUpTo(PayloadBytes, MaxPayload)

TamperPayloads == SeqsUpTo({7}, MaxTamperPayload)

IVs == {Rep(16, 0), Rep(16, 200)}

TamperIVs == {Rep(16, 0)}

DistinctNames(ks) ==
    \A i, j \in 1..Len(ks) : ks[i].keyName = ks[j].keyName => i = j

----------------------------------------------------------------------------
(* The ticket operations. *)

NotSealed == [made |-> FALSE]

NoCall == [calls |-> 0]

\* encryptTicket, once: the ticket goes to the peer, who presents it again in buf.
Encrypt(payloads, ivs) ==
    /\ ~ sealed.made
    /\ Len(keys) >= 1
    /\ \E serialized \in payloads :
         \/ \E iv \in ivs, pick \in [1..Len(serialized) -> KsBytes] :
              LET r == encryptTicket(serialized, iv, pick)
              IN  /\ sealed' = [made |-> TRUE, err |-> r.err, payload |-> serialized,
                                key |-> keys[1], ticket |-> r.encrypted]
                  /\ buf' = r.encrypted
                  /\ hmacTab' = r.hmacTab
                  /\ aesTab' = r.aesTab
         \/ \* io.ReadFull(c.config.rand(), iv) fails
            /\ sealed' = [made |-> TRUE, err |-> TRUE, payload |-> serialized,
                          key |-> keys[1], ticket |-> <<>>]
            /\ UNCHANGED <<buf, hmacTab, aesTab>>
    /\ UNCHANGED <<keys, disabled, tamper, out, codecVars>>

EncryptTicket == Encrypt(Payloads, IVs)

EncryptTicketT == Encrypt(TamperPayloads, TamperIVs)

\* The key store hands out another list: a rotation, or any replacement.
SetKeys(pool) ==
    /\ out.calls = 0
    /\ tamper = "none"
    /\ \E l \in KeyLists(pool) : keys' = l
    /\ UNCHANGED <<disabled, hmacTab, aesTab, sealed, buf, tamper, out, codecVars>>

SetTicketKeys == SetKeys(KeyPool)

SetTicketKeysT == SetKeys(TamperKeyPool)

SetDisabled ==
    /\ out.calls = 0
    /\ tamper = "none"
    /\ disabled' = ~ disabled
    /\ UNCHANGED <<keys, hmacTab, aesTab, sealed, buf, tamper, out, codecVars>>

\* One bit of the ticket flips on its way back.
FlipBit ==
    /\ sealed.made
    /\ ~ sealed.err
    /\ tamper = "none"
    /\ out.calls = 0
    /\ \E i \in 1..Len(buf), j \in 0..7 : buf' = [buf EXCEPT ![i] = Xor(@, 2 ^ j)]
    /\ tamper' = "flip"
    /\ UNCHANGED <<keys, disabled, hmacTab, aesTab, sealed, out, codecVars>>

\* The ticket comes back cut short.
Cut ==
    /\ sealed.made
    /\ ~ sealed.err
    /\ tamper = "none"
    /\ out.calls = 0
    /\ \E n \in 0..(Len(buf) - 1) : buf' = Take(buf, n)
    /\ tamper' = "cut"
    /\ UNCHANGED <<keys, disabled, hmacTab, aesTab, sealed, out, codecVars>>

\* decryptTicket on buf; a second time on the same buffer after a first call
\* that returned a payload.
DecryptTicket ==
    /\ sealed.made
    /\ ~ sealed.err
    /\ out.calls = 0 \/ (out.calls = 1 /\ ~ out.nil)
    /\ \E pick \in [1..(Len(buf) - ticketKeyNameLen - aesBlockSize - sha256Size) -> KsBytes] :
         LET r == decryptTicket(buf, pick)
         IN  /\ out' = [calls |-> out.calls + 1, nil |-> r.nil, serialized |-> r.serialized,
                        usedOldKey |-> r.usedOldKey, at |-> r.at, before |-> buf,
                        prevPayload |-> IF out.calls = 0 THEN <<>> ELSE out.serialized]
             /\ buf' = r.buf
             /\ hmacTab' = r.hmacTab
             /\ aesTab' = r.aesTab
    /\ UNCHANGED <<keys, disabled, sealed, tamper, codecVars>>

TicketInit(pool) ==
    /\ keys \in KeyLists(pool)
    /\ disabled \in BOOLEAN
    /\ hmacTab = <<>>
    /\ aesTab = <<>>
    /\ sealed = NotSealed
    /\ buf = <<>>
    /\ tamper = "none"
    /\ out = NoCall

InitTicket == CodecIdle /\ TicketInit(KeyPool)

NextTicket == EncryptTicket \/ SetTicketKeys \/ SetDisabled \/ DecryptTicket

SpecTicket == InitTicket /\ [][NextTicket]_vars

InitTamper == CodecIdle /\ TicketInit(TamperKeyPool)

NextTamper == EncryptTicketT \/ SetTicketKeysT \/ FlipBit \/ Cut \/ DecryptTicket

SpecTamper == InitTamper /\ [][NextTamper]_vars

----------------------------------------------------------------------------
(* Claims about sealing and opening, checked under SpecTicket. *)

\* C2: a ticket sealed for payload P under key K and opened, untouched and with
\* tickets enabled, while K is at index i of a key list with pairwise distinct
\* names yields exactly P, and usedOldKey exactly when i is not the first index.
C2_SealOpen ==
    (out.calls = 1 /\ tamper = "none" /\ ~ disabled /\ DistinctNames(keys)) =>
        \A i \in 1..Len(keys) :
            keys[i] = sealed.key =>
                /\ ~ out.nil
                /\ out.serialized = sealed.payload
                /\ out.usedOldKey = (i > 1)

C2_Witness ==
    /\ out.calls = 1
    /\ ~ disabled
    /\ keys = <<KB, KA>>
    /\ sealed.key = KA
    /\ sealed.payload = <<0, 7>>
    /\ out.serialized = <<0, 7>>
    /\ out.usedOldKey

\* The buffer after a call: unchanged when the call returned no payload, and
\* otherwise changed in the ciphertext region alone, which holds the payload.
C10_Frame ==
    out.calls >= 1 =>
        IF out.nil THEN buf = out.before
        ELSE /\ Len(buf) = Len(out.before)
             /\ \A i \in 1..Len(buf) :
                    IF /\ i > ticketKeyNameLen + aesBlockSize
                       /\ i <= Len(buf) - sha256Size
                    THEN buf[i] = out.serialized[i - ticketKeyNameLen - aesBlockSize]
                    ELSE buf[i] = out.before[i]

\* C10 as stated: the frame, and a second decryptTicket on the buffer of a call
\* that returned a non-empty payload returns no payload.
C10_SecondCallNeverVerifies ==
    /\ C10_Frame
    /\ (out.calls = 2 /\ out.prevPayload # <<>>) => out.nil

\* C10, amended: the frame, and a second decryptTicket on the buffer of a call
\* that returned a payload returns no payload when the first call changed the
\* buffer, that is when the payload differs from the ciphertext.
C10_VerifyBeforeDecrypt ==
    /\ C10_Frame
    /\ (out.calls = 2 /\ out.before # sealed.ticket) => out.nil

C10_Witness ==
    /\ out.calls = 2
    /\ out.nil
    /\ out.at = "mac"
    /\ out.prevPayload = <<7, 7>>
    /\ buf = out.before
    /\ buf # sealed.ticket

----------------------------------------------------------------------------
(* Claims about tampered tickets, checked under SpecTamper. *)

\* C3: after any single bit of a sealed ticket has flipped, decryptTicket returns
\* no payload, whatever the candidate key list.
C3_TamperDetected ==
    (tamper = "flip" /\ out.calls >= 1) =>
        (out.nil /\ out.serialized = <<>> /\ ~ out.usedOldKey)

\* The flipped bit turned KA's name into the name of KC, which is in the list
\* and has KA's keys.
C3_Witness ==
    /\ tamper = "flip"
    /\ out.calls = 1
    /\ ~ disabled
    /\ sealed.key = KA
    /\ Take(out.before, ticketKeyNameLen) = KC.keyName
    /\ keys = <<KA, KC>>
    /\ out.at = "mac"

\* decryptTicket must reject the buffer b: tickets are disabled, b is too short,
\* no candidate key has its name, or its MAC is not the matched key's MAC.
MustReject(b) ==
    \/ disabled
    \/ Len(b) < ticketKeyNameLen + aesBlockSize + sha256Size
    \/ \A i \in 1..Len(keys) : keys[i].keyName # Take(b, ticketKeyNameLen)
    \/ LET i == CHOOSE i \in 1..Len(keys) :
                   /\ keys[i].keyName = Take(b, ticketKeyNameLen)
                   /\ \A j \in 1..(i - 1) : keys[j].keyName # Take(b, ticketKeyNameLen)
       IN  Drop(b, Len(b) - sha256Size)
               # HmacSum(hmacTab, keys[i].hmacKey, Take(b, Len(b) - sha256Size))

\* C9: every rejection returns (nil, false), and usedOldKey is true only
\* together with a payload.
C9_UniformRejection ==
    out.calls >= 1 =>
        /\ MustReject(out.before) =>
               (out.nil /\ out.serialized = <<>> /\ ~ out.usedOldKey)
        /\ out.usedOldKey => ~ out.nil

\* A MAC mismatch under a matched key that is not the first of the list.
C9_Witness ==
    /\ out.calls = 1
    /\ ~ disabled
    /\ out.at = "mac"
    /\ Len(keys) = 2
    /\ keys[1].keyName # Take(out.before, ticketKeyNameLen)
    /\ keys[2].keyName = Take(out.before, ticketKeyNameLen)
    /\ out.nil
    /\ ~ out.usedOldKey

----------------------------------------------------------------------------
(* marshal on fields longer than their 2-byte length prefix can say. *)

\* The largest value of a 2-byte length prefix.
MaxU16 == 65535

OverLens == MaxU16..(MaxU16 + 1 + OverBy)

OverStates12 ==
    {[shape |-> "v12", vers |-> 769, cipherSuite |-> 4865, masterSecret |-> Rep(n, 0),
      certificates |-> <<>>, usedOldKey |-> FALSE] : n \in OverLens}

OverStates13 ==
    {[shape |-> "v13", vers |-> 772, suite |-> 4865, ageAdd |-> <<258, 772>>,
      createdAt |-> <<258, 772, 1286, 1800>>, maxEarlyDataLen |-> <<2571, 3085>>,
      resumptionSecret |-> Rep(n[1], 0), alpnProtocol |-> Rep(n[2], 97),
      SNI |-> Rep(n[3], 97)] :
        n \in {<<k, 0, 0>> : k \in OverLens} \cup {<<0, k, 0>> : k \in OverLens}
                \cup {<<0, 0, k>> : k \in OverLens}}

\* marshal on a state of any field length.
MarshalAny ==
    /\ op = "init"
    /\ \E s \in States12 \cup States13 \cup OverStates12 \cup OverStates13 :
        /\ st' = s
        /\ data' = marshal(s)
    /\ op' = "marshal"
    /\ UNCHANGED <<res, ticketVars>>

NextOverflow == MarshalAny \/ Unmarshal12 \/ Unmarshal13

SpecOverflow == Init /\ [][NextOverflow]_vars

\* Every length prefix of the encoding d holds the length of its field of s.
PrefixesTrue(s, d) ==
    IF s.shape = "v12"
    THEN /\ U16(d, 4) = Len(s.masterSecret)
         /\ U16(d, 6 + Len(s.masterSecret)) = Len(s.certificates)
    ELSE /\ U16(d, 20) = Len(s.resumptionSecret)
         /\ U16(d, 22 + Len(s.resumptionSecret)) = Len(s.alpnProtocol)
         /\ U16(d, 24 + Len(s.resumptionSecret) + Len(s.alpnProtocol)) = Len(s.SNI)

\* C7: marshal emits no encoding in which a length prefix holds a field's length
\* reduced modulo 2^16: every encoding it emits states the true lengths.
C7_NoSilentTruncation ==
    op = "marshal" => PrefixesTrue(st, data)

====
